---- MODULE Spec2Model ----
(***************************************************************************)
(* Model of the KYC verification agent (src/src/kyc_agent.py): the         *)
(* orchestrator process_kyc and the functions it sequences                 *)
(* (extract_text_from_document, parse_kyc_details, verify_faces,           *)
(* calculate_fraud_score).                                                 *)
(*                                                                         *)
(* Strings that the code inspects are sequences of tokens, so that a       *)
(* substring test, a lower-casing or a digit extraction is computed and    *)
(* not assumed.  The external capabilities (EasyOCR, DeepFace, the OpenCV  *)
(* cascade, the regex engine) are inputs: each action draws their answer   *)
(* from a small set.                                                       *)
(***************************************************************************)
EXTENDS Integers, Sequences, FiniteSets, TLC

VARIABLES
    pc,                 \* position inside process_kyc
    EASYOCR_AVAILABLE,  \* module global, set at import
    DEEPFACE_AVAILABLE, \* module global, set at import
    current_year,       \* datetime.now().year
    requests,           \* number of process_kyc calls started
    id_card, selfie,    \* the arguments of the current call
    raw_text,           \* text returned by extract_text_from_document
    ocr_results,        \* raw OCR results returned with it
    ocr,                \* what happened to the text recognition capability
    parsed_details,     \* dict returned by parse_kyc_details
    face_message, faces_match, \* tuple returned by verify_faces
    primary,            \* what happened to the DeepFace path in verify_faces
    df_error,           \* message of the exception DeepFace.verify raised
    calls,              \* invocations of each capability in the current call
    trace,              \* pipeline steps completed in the current call
    fraud,              \* (score, risk_level, indicators)
    status,             \* overall status derived in step 5
    result,             \* value returned by process_kyc
    raised, caught,     \* exception that reached the boundary; catches
    prev                \* score before a field was replaced (scorer checks)

vars == <<pc, EASYOCR_AVAILABLE, DEEPFACE_AVAILABLE, current_year, requests,
          id_card, selfie, raw_text, ocr_results, ocr, parsed_details,
          face_message, faces_match, primary, df_error, calls, trace, fraud,
          status, result, raised, caught, prev>>

----------------------------------------------------------------------------
(* Bounds *)

MaxRequests == 2

----------------------------------------------------------------------------
(* Values *)

NotFound == <<"Not found">>
NoMatch == <<>>
NoExc == <<>>

FieldOrder == <<"Name", "Document Number", "Date Of Birth", "Issue Date",
                "Address", "Nationality">>
Fields == {FieldOrder[i] : i \in 1..Len(FieldOrder)}

\* years the clock may show
CurrentYears == {2025, 2026}

\* int(year_match.group(1)) for the digit runs of at least four digits that
\* occur in the dates of the model; a run of five digits yields its first four
First4Digits ==
    [t \in {"1905", "1990", "2008", "2030", "19905"} |->
        CASE t = "1905" -> 1905
          [] t = "1990" -> 1990
          [] t = "2008" -> 2008
          [] t = "2030" -> 2030
          [] t = "19905" -> 1990]

\* str.lower() on the tokens of exception messages
Lower(tok) ==
    CASE tok = "CUDA" -> "cuda"
      [] tok = "Dlib" -> "dlib"
      [] OTHER -> tok

\* messages of the exceptions the environment raises
ExcMsgs == {<<"CUDA", "driver", "failure">>, <<"Dlib", "not", "built">>,
            <<"disk", "full">>}

\* needle in haystack, for a needle that is one token
Contains(needle, haystack) == \E i \in 1..Len(haystack) : haystack[i] = needle

Range(seq) == {seq[i] : i \in 1..Len(seq)}

LowerAll(msg) == [i \in 1..Len(msg) |-> Lower(msg[i])]

----------------------------------------------------------------------------
(* extract_text_from_document *)

\* A text is represented by its length, its stripped length and, for every
\* field, the capture group of each pattern of the field's pattern list
\* (NoMatch where re.search finds nothing).
MkText(id, n, sn, name, doc, dob, issue, addr) ==
    [id |-> id, len |-> n, slen |-> sn,
     caps |-> [f \in Fields \ {"Nationality"} |->
                 CASE f = "Name" -> name
                   [] f = "Document Number" -> doc
                   [] f = "Date Of Birth" -> dob
                   [] f = "Issue Date" -> issue
                   [] f = "Address" -> addr]]

None3 == <<NoMatch, NoMatch, NoMatch>>
None4 == <<NoMatch, NoMatch, NoMatch, NoMatch>>

EmptyText == MkText("", 0, 0, None3, None4, None3, None3, None3)

\* the literal of line 72: 21 characters, no label and no digit in it
NotAvailableText ==
    MkText("EasyOCR not available", 21, 21, None3, None4, None3, None3, None3)

\* "  ID NO 12 ": the third document pattern would capture 12, but the
\* stripped text has 8 characters
ShortText ==
    MkText("  ID NO 12 ", 11, 8, None3,
           <<NoMatch, NoMatch, <<"12">>, NoMatch>>, None3, None3, None3)

NameCaps == {None3,
             <<<<"RAM", "BAHADUR", "THAPA">>, NoMatch, NoMatch>>,
             <<NoMatch, <<"R", "THAPA", "DATE", "OF", "BIRTH">>,
               <<"A", "RAM", "THAPA">>>>}
DocCaps == {None4, <<NoMatch, NoMatch, NoMatch, <<"12-34-56-7890">>>>}
DobCaps == {None3,
            <<<<"1990", "JAN", "15">>, NoMatch, NoMatch>>,
            <<NoMatch, <<"1905", "01", "15">>, <<"15", "01", "2008">>>>,
            <<NoMatch, NoMatch, <<"15", "01", "2008">>>>,
            <<NoMatch, <<"2030", "01", "15">>, NoMatch>>}
IssueCaps == {None3, <<NoMatch, NoMatch, <<"2010.05.01">>>>}
AddrCaps == {None3, <<NoMatch, <<"KASKI">>, <<"KASKI", "WARD">>>>}

\* texts the recognition can produce from an image (reader.readtext joined
\* with newlines); the empty text is the join of an empty result list
OcrTexts ==
    {EmptyText, ShortText} \cup
    {MkText("ocr", 60, 60, n, d, b, i, a) :
        n \in NameCaps, d \in DocCaps, b \in DobCaps, i \in IssueCaps,
        a \in AddrCaps}

\* ocrOut: [raises |-> BOOLEAN, text |-> the text of the results]
extract_text_from_document(available, ocrOut) ==
    IF ~available
    THEN [text |-> NotAvailableText, results |-> <<>>]
    ELSE IF ocrOut.raises
    THEN [text |-> EmptyText, results |-> <<>>]
    ELSE [text |-> ocrOut.text,
          results |-> IF ocrOut.text = EmptyText THEN <<>>
                      ELSE <<ocrOut.text.id>>]

----------------------------------------------------------------------------
(* parse_kyc_details *)

RECURSIVE FirstMatch(_)
\* the capture of the first pattern of the list that matches
FirstMatch(capList) ==
    IF capList = <<>> THEN NoMatch
    ELSE IF Head(capList) # NoMatch THEN Head(capList)
    ELSE FirstMatch(Tail(capList))

NoiseWords == {"DATE", "YEAR", "MONTH", "DAY", "OF", "BIRTH"}
OneCharWords == {"A", "R"}

IsNameWord(w) == w \notin OneCharWords /\ w \notin NoiseWords

RECURSIVE ParseName(_)
\* lines 118-128: the first pattern whose capture keeps two words or more
ParseName(capList) ==
    IF capList = <<>> THEN NotFound
    ELSE IF Head(capList) # NoMatch
            /\ Len(SelectSeq(Head(capList), IsNameWord)) >= 2
    THEN SelectSeq(Head(capList), IsNameWord)
    ELSE ParseName(Tail(capList))

OrNotFound(cap) == IF cap = NoMatch THEN NotFound ELSE cap

DefaultDetails ==
    [f \in Fields |-> IF f = "Nationality" THEN <<"NEPALESE">> ELSE NotFound]

MinTextLen == 10

parse_kyc_details(text) ==
    IF text.len = 0 \/ text.slen < MinTextLen
    THEN DefaultDetails
    ELSE [f \in Fields |->
            CASE f = "Name" -> ParseName(text.caps[f])
              [] f = "Document Number" -> OrNotFound(FirstMatch(text.caps[f]))
              [] f = "Date Of Birth" -> OrNotFound(FirstMatch(text.caps[f]))
              [] f = "Issue Date" -> OrNotFound(FirstMatch(text.caps[f]))
              [] f = "Address" ->
                    IF FirstMatch(text.caps[f]) = NoMatch THEN NotFound
                    ELSE <<"District: ">> \o FirstMatch(text.caps[f])
              [] f = "Nationality" -> <<"NEPALESE">>]

----------------------------------------------------------------------------
(* verify_faces *)

MsgMatch == <<"Faces Match!">>
MsgUnclear == <<"Face not clearly detected in one or both images.">>
MsgNoMatch == <<"Faces Do Not Match!">>
MsgNoIdFace == <<"Face not detected in the ID Card.">>
MsgNoSelfieFace == <<"Face not detected in the Selfie.">>
MsgBasic == <<" Faces detected in both images (", "basic verification", ")">>
MsgLibrary == <<"Face comparison error: Could not initialize processing library.",
                " Please check environment.">>
MsgCritical(e) == <<"CRITICAL ERROR", " during face verification: ">> \o e

\* face_confidence is kept in hundredths: 0.5 is 50, the default 1.0 is 100
ConfidenceThreshold == 50
DefaultConfidence == 100

\* what DeepFace.verify does: it raises error, or returns a dict with the key
\* 'verified' and, when has_confidence, the key 'face_confidence'
DfOutcomes ==
    [raises : {FALSE}, error : {NoExc}, verified : {TRUE},
     has_confidence : {FALSE}, face_confidence : {0}]
    \cup
    [raises : {FALSE}, error : {NoExc}, verified : {FALSE},
     has_confidence : {TRUE}, face_confidence : {30, 50}]
    \cup
    [raises : {FALSE}, error : {NoExc}, verified : {FALSE},
     has_confidence : {FALSE}, face_confidence : {0}]
    \cup
    [raises : {TRUE}, error : ExcMsgs, verified : {FALSE},
     has_confidence : {FALSE}, face_confidence : {0}]

\* result.get('face_confidence', 1.0)
GetConfidence(r) ==
    IF r.has_confidence THEN r.face_confidence ELSE DefaultConfidence

\* lines 260-265
PrimaryVerdict(r) ==
    IF r.verified THEN [message |-> MsgMatch, match |-> TRUE]
    ELSE IF GetConfidence(r) < ConfidenceThreshold
    THEN [message |-> MsgUnclear, match |-> FALSE]
    ELSE [message |-> MsgNoMatch, match |-> FALSE]

\* the selfie checked before the ID card
OpenCvFallback_selfie_first(id_has_face, selfie_has_face) ==
    IF ~selfie_has_face THEN [message |-> MsgNoSelfieFace, match |-> FALSE]
    ELSE IF ~id_has_face THEN [message |-> MsgNoIdFace, match |-> FALSE]
    ELSE [message |-> MsgBasic, match |-> TRUE]

\* lines 270-279
OpenCvFallback(id_has_face, selfie_has_face) ==
    IF ~id_has_face THEN [message |-> MsgNoIdFace, match |-> FALSE]
    ELSE IF ~selfie_has_face THEN [message |-> MsgNoSelfieFace, match |-> FALSE]
    ELSE [message |-> MsgBasic, match |-> TRUE]

\* lines 281-285
OuterExcept(e) ==
    IF Contains("cuda", LowerAll(e)) \/ Contains("dlib", LowerAll(e))
    THEN [message |-> MsgLibrary, match |-> FALSE]
    ELSE [message |-> MsgCritical(e), match |-> FALSE]

LogDeepFace == "DeepFace.verify"
LogDetectId == "detect_face_opencv(id_card_image)"
LogDetectSelfie == "detect_face_opencv(selfie_image)"
LogOcr == "reader.readtext"

WithLog(r, log) == [message |-> r.message, match |-> r.match, log |-> log]

\* DeepFace.verify tried a second time after it raised
verify_faces_retry(available, conv, df, id_has_face, selfie_has_face) ==
    IF conv # NoExc THEN WithLog(OuterExcept(conv), <<>>)
    ELSE IF available /\ ~df.raises
    THEN WithLog(PrimaryVerdict(df), <<LogDeepFace>>)
    ELSE WithLog(OpenCvFallback(id_has_face, selfie_has_face),
                 (IF available THEN <<LogDeepFace, LogDeepFace>> ELSE <<>>)
                 \o <<LogDetectId, LogDetectSelfie>>)

\* conv: the exception raised while the images are converted (lines 242-245),
\* NoExc if none; df: the outcome of DeepFace.verify; id_has_face and
\* selfie_has_face: the answers of detect_face_opencv, which returns False
\* when the cascade raises.  log lists the capabilities invoked, in order.
verify_faces(available, conv, df, id_has_face, selfie_has_face) ==
    IF conv # NoExc THEN WithLog(OuterExcept(conv), <<>>)
    ELSE IF available /\ ~df.raises
    THEN WithLog(PrimaryVerdict(df), <<LogDeepFace>>)
    ELSE WithLog(OpenCvFallback(id_has_face, selfie_has_face),
                 (IF available THEN <<LogDeepFace>> ELSE <<>>)
                 \o <<LogDetectId, LogDetectSelfie>>)

\* which path of verify_faces ran
PrimaryPath(available, conv, df) ==
    IF conv # NoExc THEN "not_reached"
    ELSE IF ~available THEN "unavailable"
    ELSE IF df.raises THEN "raised"
    ELSE "verdict"

\* the paths on which the code goes on to line 271
FallbackPaths == {"unavailable", "raised"}

----------------------------------------------------------------------------
(* calculate_fraud_score *)

MissingPenalty == 15
FaceMismatchPenalty == 40
UnderAgePenalty == 30
InvalidAgePenalty == 40
MinAge == 18
MaxAge == 120
MaxScore == 100
HighThreshold == 60
MediumThreshold == 30

\* the comparison inverted: the fields that were found
MissingFields_found(details) ==
    LET IsFound(k) == details[k] # NotFound
    IN  SelectSeq(FieldOrder, IsFound)

\* lines 302-305, in the key order of the dict
MissingFields(details) ==
    LET IsMissing(k) == details[k] = NotFound
    IN  SelectSeq(FieldOrder, IsMissing)

RECURSIVE YearMatch(_)
\* re.search(r'(\d{4})', dob_str): the first four digits of the first run of
\* four digits or more, -1 when there is none
YearMatch(dob_str) ==
    IF dob_str = <<>> THEN -1
    ELSE IF Head(dob_str) \in DOMAIN First4Digits
    THEN First4Digits[Head(dob_str)]
    ELSE YearMatch(Tail(dob_str))

\* the age limits taken inclusive
AgeCheck_inclusive(details) ==
    IF details["Date Of Birth"] = NotFound
       \/ YearMatch(details["Date Of Birth"]) = -1
    THEN [penalty |-> 0, indicators |-> <<>>]
    ELSE LET age == current_year - YearMatch(details["Date Of Birth"])
         IN  IF age <= MinAge
             THEN [penalty |-> UnderAgePenalty, indicators |-> <<>>]
             ELSE IF age >= MaxAge
             THEN [penalty |-> InvalidAgePenalty, indicators |-> <<>>]
             ELSE [penalty |-> 0, indicators |-> <<>>]

\* lines 317-333: the penalty and the indicator of the date of birth
AgeCheck(details) ==
    IF details["Date Of Birth"] = NotFound
       \/ YearMatch(details["Date Of Birth"]) = -1
    THEN [penalty |-> 0, indicators |-> <<>>]
    ELSE LET age == current_year - YearMatch(details["Date Of Birth"])
         IN  IF age < MinAge
             THEN [penalty |-> UnderAgePenalty,
                   indicators |-> <<[kind |-> "Person appears to be under 18",
                                     age |-> age, fields |-> <<>>]>>]
             ELSE IF age > MaxAge
             THEN [penalty |-> InvalidAgePenalty,
                   indicators |-> <<[kind |-> "Invalid age calculated",
                                     age |-> age, fields |-> <<>>]>>]
             ELSE [penalty |-> 0, indicators |-> <<>>]

Min(a, b) == IF a < b THEN a ELSE b

\* lines 337-343
RiskLevel(score) ==
    IF score >= HighThreshold THEN "High"
    ELSE IF score >= MediumThreshold THEN "Medium"
    ELSE "Low"

\* line 335 left out
calculate_fraud_score_unclamped(details, face_match_status) ==
    LET s == Len(MissingFields(details)) * MissingPenalty
             + (IF ~face_match_status THEN FaceMismatchPenalty ELSE 0)
             + AgeCheck(details).penalty
    IN  [score |-> s, risk_level |-> RiskLevel(s), indicators |-> <<>>]

calculate_fraud_score(details, face_match_status) ==
    LET missing == MissingFields(details)
        s1 == IF missing # <<>> THEN Len(missing) * MissingPenalty ELSE 0
        i1 == IF missing # <<>>
              THEN <<[kind |-> "Could not extract", age |-> 0,
                      fields |-> missing]>>
              ELSE <<>>
        s2 == IF ~face_match_status THEN s1 + FaceMismatchPenalty ELSE s1
        i2 == IF ~face_match_status
              THEN Append(i1, [kind |-> "Face verification failed or faces did not match.",
                               age |-> 0, fields |-> <<>>])
              ELSE i1
        s3 == s2 + AgeCheck(details).penalty
        i3 == i2 \o AgeCheck(details).indicators
        score == Min(s3, MaxScore)
    IN  [score |-> score, risk_level |-> RiskLevel(score), indicators |-> i3]

----------------------------------------------------------------------------
(* process_kyc *)

None == "None"
Image == "image"
Args == {None, Image}

MsgUpload == <<"Please upload both an ID card and a selfie.">>

\* both images required to be missing
ImagesMissing_both(i, s) == i = None /\ s = None

\* line 358
ImagesMissing(i, s) == i = None \/ s = None

\* manual review only when a field is missing and the faces differ
derive_status_and(details, match, message) ==
    LET s1 == IF (\E f \in DOMAIN details : details[f] = NotFound) /\ ~match
              THEN "MANUAL REVIEW REQUIRED"
              ELSE "VERIFIED"
    IN  IF Contains("CRITICAL ERROR", message) THEN "PROCESSING ERROR" ELSE s1

\* the missing fields left out of the manual review test
derive_status_face_only(details, match, message) ==
    LET s1 == IF ~match THEN "MANUAL REVIEW REQUIRED" ELSE "VERIFIED"
    IN  IF Contains("CRITICAL ERROR", message) THEN "PROCESSING ERROR" ELSE s1

\* lines 378-384
derive_status(details, match, message) ==
    LET s1 == IF (\E f \in DOMAIN details : details[f] = NotFound) \/ ~match
              THEN "MANUAL REVIEW REQUIRED"
              ELSE "VERIFIED"
    IN  IF Contains("CRITICAL ERROR", message) THEN "PROCESSING ERROR" ELSE s1

NoDetails == [f \in Fields |-> <<>>]
NoFraud == [score |-> 0, risk_level |-> "", indicators |-> <<>>]
NoPrimary == [path |-> "", id_has_face |-> FALSE, selfie_has_face |-> FALSE]
NoRaise == [step |-> "", exc |-> NoExc]
NoResult == [kind |-> "", text |-> <<>>, status |-> "", details |-> NoDetails,
             face_message |-> <<>>, fraud |-> NoFraud]

\* line 359
InstructionResult == [NoResult EXCEPT !.kind = "instruction", !.text = MsgUpload]

\* lines 387-409
render_report(st, details, message, fr) ==
    [NoResult EXCEPT !.kind = "report", !.status = st, !.details = details,
                     !.face_message = message, !.fraud = fr]

\* the exception raised again instead of returned
on_exception_reraise(e) ==
    [kind |-> "escaped", text |-> e, status |-> "",
     details |-> [f \in Fields |-> <<>>], face_message |-> <<>>,
     fraud |-> [score |-> 0, risk_level |-> "", indicators |-> <<>>]]

\* lines 411-412
on_exception(e) ==
    [NoResult EXCEPT !.kind = "error", !.text = <<"PROCESSING ERROR", ": ">> \o e]

Steps == {"extract", "parse", "verify", "score", "status", "render"}

OcrOutcomes ==
    [raises : {TRUE}, text : {EmptyText}] \cup [raises : {FALSE}, text : OcrTexts]

Init ==
    /\ pc = "idle"
    /\ EASYOCR_AVAILABLE \in BOOLEAN
    /\ DEEPFACE_AVAILABLE \in BOOLEAN
    /\ current_year \in CurrentYears
    /\ requests = 0
    /\ id_card = None /\ selfie = None
    /\ raw_text = EmptyText /\ ocr_results = <<>> /\ ocr = ""
    /\ parsed_details = NoDetails
    /\ face_message = <<>> /\ faces_match = FALSE
    /\ primary = NoPrimary /\ df_error = NoExc
    /\ calls = <<>> /\ trace = <<>>
    /\ fraud = NoFraud /\ status = ""
    /\ result = NoResult
    /\ raised = NoRaise /\ caught = 0
    /\ prev = [field |-> "", score |-> 0, penalty |-> 0]

Globals == <<EASYOCR_AVAILABLE, DEEPFACE_AVAILABLE, current_year, prev>>

\* a call of process_kyc, up to the image check of lines 358-359
ProcessKyc(i, s) ==
    /\ pc \in {"idle", "returned"}
    /\ requests < MaxRequests
    /\ requests' = requests + 1
    /\ id_card' = i /\ selfie' = s
    /\ raw_text' = EmptyText /\ ocr_results' = <<>> /\ ocr' = ""
    /\ parsed_details' = NoDetails
    /\ face_message' = <<>> /\ faces_match' = FALSE
    /\ primary' = NoPrimary /\ df_error' = NoExc
    /\ calls' = <<>> /\ trace' = <<>>
    /\ fraud' = NoFraud /\ status' = ""
    /\ raised' = NoRaise /\ caught' = 0
    /\ IF ImagesMissing(i, s)
       THEN result' = InstructionResult /\ pc' = "returned"
       ELSE result' = NoResult /\ pc' = "extract"
    /\ UNCHANGED Globals

\* step 1, line 363
ExtractText(o) ==
    /\ pc = "extract"
    /\ LET r == extract_text_from_document(EASYOCR_AVAILABLE, o)
       IN  /\ raw_text' = r.text
           /\ ocr_results' = r.results
    /\ ocr' = IF ~EASYOCR_AVAILABLE THEN "unavailable"
              ELSE IF o.raises THEN "raised" ELSE "ok"
    /\ calls' = IF EASYOCR_AVAILABLE THEN Append(calls, LogOcr) ELSE calls
    /\ trace' = Append(trace, "extract")
    /\ pc' = "parse"
    /\ UNCHANGED <<Globals, requests, id_card, selfie, parsed_details,
                   face_message, faces_match, primary, df_error, fraud, status,
                   result, raised, caught>>

\* step 2, line 366
ParseDetails ==
    /\ pc = "parse"
    /\ parsed_details' = parse_kyc_details(raw_text)
    /\ trace' = Append(trace, "parse")
    /\ pc' = "verify"
    /\ UNCHANGED <<Globals, requests, id_card, selfie, raw_text, ocr_results,
                   ocr, face_message, faces_match, primary, df_error, calls,
                   fraud, status, result, raised, caught>>

\* step 3, line 369
VerifyFaces(conv, df, idf, sf) ==
    /\ pc = "verify"
    /\ LET r == verify_faces(DEEPFACE_AVAILABLE, conv, df, idf, sf)
           path == PrimaryPath(DEEPFACE_AVAILABLE, conv, df)
       IN  /\ face_message' = r.message
           /\ faces_match' = r.match
           /\ calls' = calls \o r.log
           /\ primary' = [path |-> path,
                          id_has_face |-> idf /\ path \in FallbackPaths,
                          selfie_has_face |-> sf /\ path \in FallbackPaths]
           /\ df_error' = IF path = "raised" THEN df.error ELSE NoExc
    /\ trace' = Append(trace, "verify")
    /\ pc' = "score"
    /\ UNCHANGED <<Globals, requests, id_card, selfie, raw_text, ocr_results,
                   ocr, parsed_details, fraud, status, result, raised,
                   caught>>

\* step 4, lines 372-375
CalculateFraud ==
    /\ pc = "score"
    /\ fraud' = calculate_fraud_score(parsed_details, faces_match)
    /\ trace' = Append(trace, "score")
    /\ pc' = "status"
    /\ UNCHANGED <<Globals, requests, id_card, selfie, raw_text, ocr_results,
                   ocr, parsed_details, face_message, faces_match, primary,
                   df_error, calls, status, result, raised, caught>>

\* step 5, lines 378-384
DeriveStatus ==
    /\ pc = "status"
    /\ status' = derive_status(parsed_details, faces_match, face_message)
    /\ trace' = Append(trace, "status")
    /\ pc' = "render"
    /\ UNCHANGED <<Globals, requests, id_card, selfie, raw_text, ocr_results,
                   ocr, parsed_details, face_message, faces_match, primary,
                   df_error, calls, fraud, result, raised, caught>>

\* step 6, lines 387-409
RenderReport ==
    /\ pc = "render"
    /\ result' = render_report(status, parsed_details, face_message, fraud)
    /\ trace' = Append(trace, "render")
    /\ pc' = "returned"
    /\ UNCHANGED <<Globals, requests, id_card, selfie, raw_text, ocr_results,
                   ocr, parsed_details, face_message, faces_match, primary,
                   df_error, calls, fraud, status, raised, caught>>

\* a step raises an exception that its own handlers do not absorb; the
\* except clause of lines 411-412 turns it into the return value
StepRaises(e) ==
    /\ pc \in Steps
    /\ raised' = [step |-> pc, exc |-> e]
    /\ caught' = caught + 1
    /\ result' = on_exception(e)
    /\ pc' = "returned"
    /\ UNCHANGED <<Globals, requests, id_card, selfie, raw_text, ocr_results,
                   ocr, parsed_details, face_message, faces_match, primary,
                   df_error, calls, trace, fraud, status>>

Next ==
    \/ \E i \in Args, s \in Args : ProcessKyc(i, s)
    \/ \E o \in OcrOutcomes : ExtractText(o)
    \/ ParseDetails
    \/ \E conv \in {NoExc} \cup ExcMsgs, df \in DfOutcomes,
          idf \in BOOLEAN, sf \in BOOLEAN : VerifyFaces(conv, df, idf, sf)
    \/ CalculateFraud
    \/ DeriveStatus
    \/ RenderReport
    \/ \E e \in ExcMsgs : StepRaises(e)

Spec == Init /\ [][Next]_vars

----------------------------------------------------------------------------
(* calculate_fraud_score on its own: every record of six fields, every flag *)

\* values a found field can hold; the dates cover the ages on both sides of
\* 18 and 120, a date with no run of four digits and one with a run of five
FoundValues(f) ==
    IF f = "Date Of Birth"
    THEN {<<"1990", "JAN", "15">>, <<"1905", "01", "15">>,
          <<"15", "01", "2008">>, <<"2030", "01", "15">>,
          <<"JAN", "15">>, <<"19905", "01">>}
    ELSE IF f = "Nationality" THEN {<<"NEPALESE">>}
    ELSE IF f = "Address" THEN {<<"District: ", "KASKI">>}
    ELSE {<<"12-34-56-7890">>}

AllDetails == {d \in [Fields -> UNION {FoundValues(f) : f \in Fields} \cup {NotFound}] :
                 \A f \in Fields : d[f] \in FoundValues(f) \cup {NotFound}}

InitScore ==
    /\ pc = "score_input"
    /\ EASYOCR_AVAILABLE = TRUE
    /\ DEEPFACE_AVAILABLE = TRUE
    /\ current_year \in CurrentYears
    /\ requests = 0
    /\ id_card = None /\ selfie = None
    /\ raw_text = EmptyText /\ ocr_results = <<>> /\ ocr = ""
    /\ parsed_details \in AllDetails
    /\ face_message = <<>> /\ faces_match \in BOOLEAN
    /\ primary = NoPrimary /\ df_error = NoExc
    /\ calls = <<>> /\ trace = <<>>
    /\ fraud = NoFraud /\ status = ""
    /\ result = NoResult
    /\ raised = NoRaise /\ caught = 0
    /\ prev = [field |-> "", score |-> 0, penalty |-> 0]

NotScorer == <<pc, EASYOCR_AVAILABLE, DEEPFACE_AVAILABLE, current_year,
               requests, id_card, selfie, raw_text, ocr_results, ocr,
               face_message, faces_match, primary, df_error, calls, trace,
               status, result, raised, caught>>

\* calculate_fraud_score(parsed_details, faces_match)
ScoreCall ==
    /\ pc = "score_input"
    /\ fraud' = calculate_fraud_score(parsed_details, faces_match)
    /\ pc' = "scored"
    /\ UNCHANGED <<EASYOCR_AVAILABLE, DEEPFACE_AVAILABLE, current_year,
                   requests, id_card, selfie, raw_text, ocr_results, ocr,
                   parsed_details, face_message, faces_match, primary,
                   df_error, calls, trace, status, result, raised, caught,
                   prev>>

\* the same call after one found field is replaced by the sentinel; prev
\* keeps the field, the score and the age penalty of the call before
ReplaceField(k) ==
    /\ pc = "scored"
    /\ parsed_details[k] # NotFound
    /\ prev' = [field |-> k, score |-> fraud.score,
                penalty |-> AgeCheck(parsed_details).penalty]
    /\ parsed_details' = [parsed_details EXCEPT ![k] = NotFound]
    /\ fraud' = calculate_fraud_score(parsed_details', faces_match)
    /\ UNCHANGED NotScorer

NextScore ==
    \/ ScoreCall
    \/ \E k \in Fields : ReplaceField(k)

SpecScore == InitScore /\ [][NextScore]_vars

----------------------------------------------------------------------------
(* utils.format_report_json and utils.determine_overall_status *)

RejectThreshold == 60
MaxMissingCritical == 3

\* dict.get(key, default)
Get(dict, key, default) == IF key \in DOMAIN dict THEN dict[key] ELSE default

\* utils.py lines 201-215
determine_overall_status(details, face_verification, fraud_detection) ==
    IF Get(fraud_detection, "fraud_score", 0) >= RejectThreshold
    THEN "REJECTED - High fraud risk"
    ELSE IF ~Get(face_verification, "match", FALSE)
    THEN "REJECTED - Face mismatch"
    ELSE IF Cardinality({f \in DOMAIN details : details[f] = NotFound})
            > MaxMissingCritical
    THEN "MANUAL REVIEW REQUIRED"
    ELSE "VERIFIED"

\* utils.py lines 176-186; the timestamp is left out
format_report_json(details, face_verification, fraud_detection) ==
    [document_data |-> details,
     face_verification |-> face_verification,
     fraud_detection |-> fraud_detection,
     status |-> determine_overall_status(details, face_verification,
                                         fraud_detection)]

\* the (message, match) pairs verify_faces can return
FaceResults ==
    {[message |-> r.message, match |-> r.match] :
        r \in {verify_faces(a, c, df, i, sf) :
                 a \in BOOLEAN, c \in {NoExc} \cup ExcMsgs, df \in DfOutcomes,
                 i \in BOOLEAN, sf \in BOOLEAN}}

\* the data of one verification: parsed fields, face result, clock
InitJson ==
    /\ pc = "json_input"
    /\ EASYOCR_AVAILABLE = TRUE
    /\ DEEPFACE_AVAILABLE = TRUE
    /\ current_year \in CurrentYears
    /\ requests = 0
    /\ id_card = Image /\ selfie = Image
    /\ raw_text = EmptyText /\ ocr_results = <<>> /\ ocr = ""
    /\ parsed_details \in AllDetails
    /\ \E fr \in FaceResults :
          face_message = fr.message /\ faces_match = fr.match
    /\ primary = NoPrimary /\ df_error = NoExc
    /\ calls = <<>> /\ trace = <<>>
    /\ fraud = NoFraud /\ status = ""
    /\ result = NoResult
    /\ raised = NoRaise /\ caught = 0
    /\ prev = [field |-> "", score |-> 0, penalty |-> 0]

JsonFixed == <<EASYOCR_AVAILABLE, DEEPFACE_AVAILABLE, current_year, requests,
               id_card, selfie, raw_text, ocr_results, ocr, parsed_details,
               face_message, faces_match, primary, df_error, calls, trace,
               raised, caught, prev>>

\* steps 4 and 5 of process_kyc on that data: the score and the status of
\* the text report
JsonTextReport ==
    /\ pc = "json_input"
    /\ fraud' = calculate_fraud_score(parsed_details, faces_match)
    /\ status' = derive_status(parsed_details, faces_match, face_message)
    /\ result' = render_report(status', parsed_details, face_message, fraud')
    /\ pc' = "json_text"
    /\ UNCHANGED JsonFixed

\* format_report_json on the same data; result.status holds the status of
\* the structured form, status the one of the text report
JsonStructuredReport ==
    /\ pc = "json_text"
    /\ LET j == format_report_json(
                    parsed_details,
                    [match |-> faces_match, message |-> face_message],
                    [fraud_score |-> fraud.score,
                     risk_level |-> fraud.risk_level,
                     indicators |-> fraud.indicators])
       IN  result' = [NoResult EXCEPT !.kind = "json", !.status = j.status,
                                      !.details = j.document_data,
                                      !.face_message = j.face_verification.message,
                                      !.fraud = fraud]
    /\ pc' = "json_done"
    /\ UNCHANGED <<JsonFixed, fraud, status>>

NextJson ==
    \/ JsonTextReport
    \/ JsonStructuredReport

SpecJson == InitJson /\ [][NextJson]_vars

----------------------------------------------------------------------------
(* Properties *)

Done(step) == step \in Range(trace)
Reported == pc = "returned" /\ result.kind = "report"

\* msg contains the whole of e, token for token
References(msg, e) ==
    \E i \in 1..Len(msg) :
        /\ i + Len(e) - 1 <= Len(msg)
        /\ SubSeq(msg, i, i + Len(e) - 1) = e

\* an initialization error of the acceleration or native library
IsInitError(e) == Contains("cuda", LowerAll(e)) \/ Contains("dlib", LowerAll(e))

IsCriticalMessage(m) == Len(m) > 0 /\ m[1] = "CRITICAL ERROR"
IsLibraryMessage(m) == m = MsgLibrary

\* C1: whenever verify_faces returns the CRITICAL ERROR message or the
\* could-not-initialize-library message, the status derived by process_kyc is
\* PROCESSING ERROR, whatever the parsed fields and the match flag.
C1_ErrorMessageGivesProcessingError ==
    (Done("status")
     /\ (IsCriticalMessage(face_message) \/ IsLibraryMessage(face_message)))
    => status = "PROCESSING ERROR"

\* C2: if DeepFace.verify raises during a call with both images present, the
\* report has status PROCESSING ERROR and its face message references the
\* error.
C2_DeepFaceErrorSurfaces ==
    (Reported /\ primary.path = "raised" /\ IsInitError(df_error))
    => /\ result.status = "PROCESSING ERROR"
       /\ References(result.face_message, df_error)

\* C3 as stated: replacing any one found field, Date Of Birth included, by
\* 'Not found' never decreases the fraud score.
C3_MonotoneEveryField ==
    (pc = "scored" /\ prev.field # "") => fraud.score >= prev.score

\* C3: replacing one found field by 'Not found' never decreases the fraud
\* score when the field is not Date Of Birth, or when it is a Date Of Birth
\* that carried no age penalty.
C3_MonotoneWithoutAgePenalty ==
    (pc = "scored" /\ prev.field # ""
     /\ (prev.field # "Date Of Birth" \/ prev.penalty = 0))
    => fraud.score >= prev.score

C3_Witness ==
    /\ pc = "scored"
    /\ prev.field = "Date Of Birth" /\ prev.penalty = 0
    /\ fraud.score = prev.score + 15

\* C4: for every record of six fields, every date of birth and every flag,
\* the score of calculate_fraud_score is an integer from 0 to 100.
C4_ScoreInRange ==
    pc = "scored" => fraud.score \in 0..100

C4_Witness ==
    /\ pc = "scored"
    /\ \A f \in Fields : parsed_details[f] = NotFound
    /\ ~faces_match
    /\ fraud.score = 100

\* C5: when the face message is not a critical error, the derived status is
\* VERIFIED exactly when no parsed field is 'Not found' and the faces
\* matched, and MANUAL REVIEW REQUIRED otherwise; the fraud score plays no
\* part.
C5_StatusRule ==
    (Done("status") /\ ~IsCriticalMessage(face_message))
    => status = IF (\A f \in Fields : parsed_details[f] # NotFound)
                   /\ faces_match
                THEN "VERIFIED"
                ELSE "MANUAL REVIEW REQUIRED"

C5_Witness ==
    /\ Reported
    /\ result.status = "VERIFIED"
    /\ result.fraud.score >= 30

\* C6: an exception raised by a pipeline step after the image check never
\* leaves process_kyc: it is caught once and process_kyc returns
\* PROCESSING ERROR followed by the message of the exception.
C6_ExceptionBecomesResult ==
    raised.step # ""
    => /\ pc = "returned"
       /\ caught = 1
       /\ result.kind = "error"
       /\ result.text = <<"PROCESSING ERROR", ": ">> \o raised.exc

C6_Witness ==
    /\ raised.step = "render"
    /\ raised.exc = <<"disk", "full">>
    /\ result.kind = "error"

\* C7: when the ID card or the selfie is missing, process_kyc returns the
\* instruction message at once: no capability is invoked, no step runs and
\* no status is derived.
C7_MissingImageShortCircuits ==
    (requests > 0 /\ (id_card = None \/ selfie = None))
    => /\ pc = "returned"
       /\ result.kind = "instruction" /\ result.text = MsgUpload
       /\ result.status = "" /\ status = ""
       /\ calls = <<>> /\ trace = <<>>
       /\ fraud = NoFraud /\ parsed_details = NoDetails

C7_Witness ==
    /\ requests > 0
    /\ id_card = Image /\ selfie = None
    /\ result.kind = "instruction"

\* C8: when the text recognition is unavailable or fails,
\* extract_text_from_document returns the empty string and no results, and
\* the parser returns 'Not found' for every field but Nationality.
C8_OcrFailureGivesEmptyText ==
    (Done("extract") /\ ocr \in {"unavailable", "raised"})
    => /\ raw_text = EmptyText
       /\ ocr_results = <<>>
       /\ Done("parse") => parsed_details = DefaultDetails

\* C9: when DeepFace is unavailable or raises, verify_faces decides by
\* presence alone: no face in the ID card first, then no face in the selfie,
\* else a match flagged as basic verification; and the detector is invoked
\* only when DeepFace was unavailable or raised.
C9_FallbackByPresence ==
    Done("verify")
    => /\ primary.path \in FallbackPaths
          => IF ~primary.id_has_face
             THEN face_message = MsgNoIdFace /\ ~faces_match
             ELSE IF ~primary.selfie_has_face
             THEN face_message = MsgNoSelfieFace /\ ~faces_match
             ELSE faces_match /\ Contains("basic verification", face_message)
       /\ (LogDetectId \in Range(calls) \/ LogDetectSelfie \in Range(calls))
          => primary.path \in FallbackPaths

C9_Witness ==
    /\ Done("verify")
    /\ primary.path = "raised"
    /\ ~primary.id_has_face /\ primary.selfie_has_face
    /\ face_message = MsgNoIdFace

\* C10: the score is min(100, 15 per 'Not found' field + 40 if the faces did
\* not match + the age penalty), the age penalty being 30 below 18, 40 above
\* 120 and 0 otherwise or when no year is available; the tier is High from
\* 60, Medium from 30 and Low below.
C10_ScoreFormula ==
    pc = "scored"
    => LET n == Cardinality({f \in Fields : parsed_details[f] = NotFound})
           dob == parsed_details["Date Of Birth"]
           year == IF dob = NotFound THEN -1 ELSE YearMatch(dob)
           agePenalty == IF year = -1 THEN 0
                         ELSE IF current_year - year < 18 THEN 30
                         ELSE IF current_year - year > 120 THEN 40
                         ELSE 0
           total == 15 * n + (IF faces_match THEN 0 ELSE 40) + agePenalty
           expected == IF total > 100 THEN 100 ELSE total
       IN  /\ fraud.score = expected
           /\ fraud.risk_level = "High" <=> expected >= 60
           /\ fraud.risk_level = "Medium" <=> (30 =< expected /\ expected < 60)
           /\ fraud.risk_level = "Low" <=> expected < 30

C10_Witness ==
    /\ pc = "scored"
    /\ faces_match
    /\ \A f \in Fields : parsed_details[f] # NotFound
    /\ current_year - YearMatch(parsed_details["Date Of Birth"]) = 121
    /\ fraud.score = 40 /\ fraud.risk_level = "Medium"

\* the order of the steps in process_kyc and of the capabilities they invoke
StepOrder == <<"extract", "parse", "verify", "score", "status", "render">>
CapabilityOrder == <<LogOcr, LogDeepFace, LogDetectId, LogDetectSelfie>>

IsPrefix(a, b) == Len(a) <= Len(b) /\ SubSeq(b, 1, Len(a)) = a

Count(x, seq) == Cardinality({i \in 1..Len(seq) : seq[i] = x})

\* C11: within one process_kyc call the text recognition, DeepFace.verify and
\* the face detector on each image are invoked at most once each, also after
\* one of them failed, and the steps run in the order extract, parse, verify,
\* score, derive status, render.
C11_NoRetryAndStepOrder ==
    /\ \A c \in Range(CapabilityOrder) : Count(c, calls) <= 1
    /\ \A i, j \in 1..Len(calls) :
          i < j => \E a, b \in 1..Len(CapabilityOrder) :
                      /\ a < b
                      /\ calls[i] = CapabilityOrder[a]
                      /\ calls[j] = CapabilityOrder[b]
    /\ IsPrefix(trace, StepOrder)
    /\ Reported => trace = StepOrder
    /\ Count(LogOcr, calls) = 1 => Done("extract")
    /\ Count(LogDeepFace, calls) = 1 => Done("verify")

C11_Witness ==
    /\ Reported
    /\ ocr = "raised"
    /\ primary.path = "raised"
    /\ calls = CapabilityOrder
    /\ trace = StepOrder

\* C12: the status format_report_json computes for the structured report is
\* the status process_kyc derives for the text report from the same parsed
\* fields, face result and fraud score.
C12_StructuredStatusAgrees ==
    pc = "json_done" => result.status = status

\* C13: in every report of process_kyc, status VERIFIED comes with a fraud
\* score of at most 40 and a tier that is not High, and a High tier comes
\* with status MANUAL REVIEW REQUIRED or PROCESSING ERROR.
C13_VerifiedIsNeverHighRisk ==
    Reported
    => /\ result.status = "VERIFIED"
          => result.fraud.score <= 40 /\ result.fraud.risk_level # "High"
       /\ (result.fraud.risk_level = "High" \/ result.fraud.score >= 60)
          => result.status \in {"MANUAL REVIEW REQUIRED", "PROCESSING ERROR"}

C13_Witness ==
    /\ Reported
    /\ result.status = "VERIFIED"
    /\ result.fraud.score = 40
    /\ result.fraud.risk_level = "Medium"

====
